---- MODULE Spec2Model ----
(***************************************************************************)
(* POI ingestion of search_smartly: the celery tasks of poi/tasks.py and   *)
(* the management command of poi/management/commands/import_poi.py, both   *)
(* writing PointOfInterest rows (poi/models/poi_model.py).                 *)
(*                                                                         *)
(* Python strings are sequences of one-character strings.  Python floats   *)
(* are exact rationals [n, d] in lowest terms with d > 0.  Python values   *)
(* that reach the model layer are records tagged with their type t.        *)
(***************************************************************************)
EXTENDS Integers, Sequences, FiniteSets, TLC

(***************************************************************************)
(* Bounds of the model.                                                    *)
(***************************************************************************)
\* longest poi_ratings string of the exhaustive single-row inputs
MaxLen == 5
\* longest poi_id / poi_latitude / poi_longitude string of those inputs
MaxNumLen == 3
\* most records in one file of the batch inputs
MaxRecords == 2
\* most file paths on the command line
MaxFiles == 2
\* most executions of a task on the same file
MaxRuns == 2

(***************************************************************************)
(* Numbers.                                                                *)
(***************************************************************************)
Abs(x) == IF x < 0 THEN -x ELSE x

RECURSIVE GCD(_, _)
GCD(a, b) == IF b = 0 THEN a ELSE GCD(b, a % b)

\* the rational n/d (d > 0) in lowest terms: the value of a Python float
Rat(n, d) == LET g == GCD(Abs(n), d) IN [n |-> n \div g, d |-> d \div g]

RatOfInt(k) == [n |-> k, d |-> 1]

RatAdd(p, q) == Rat(p.n * q.d + q.n * p.d, p.d * q.d)

\* p / k for an integer k > 0
RatDivInt(p, k) == Rat(p.n, p.d * k)

RECURSIVE Pow10(_)
Pow10(k) == IF k = 0 THEN 1 ELSE 10 * Pow10(k - 1)

(***************************************************************************)
(* Strings: str.startswith, str.endswith, str.split(','), str.strip('{}'). *)
(***************************************************************************)
DigitChars == {"0", "1", "2", "3", "4", "5", "6", "7", "8", "9"}

DigitVal(c) ==
    CASE c = "0" -> 0 [] c = "1" -> 1 [] c = "2" -> 2 [] c = "3" -> 3
      [] c = "4" -> 4 [] c = "5" -> 5 [] c = "6" -> 6 [] c = "7" -> 7
      [] c = "8" -> 8 [] c = "9" -> 9

StartsWith(s, c) == Len(s) > 0 /\ s[1] = c

EndsWith(s, c) == Len(s) > 0 /\ s[Len(s)] = c

\* s.split(','): never empty, one more element than there are commas
RECURSIVE Split(_)
Split(s) ==
    IF \A i \in 1..Len(s) : s[i] # ","
    THEN <<s>>
    ELSE LET i == CHOOSE k \in 1..Len(s) :
                      s[k] = "," /\ \A j \in 1..(k - 1) : s[j] # ","
         IN  <<SubSeq(s, 1, i - 1)>> \o Split(SubSeq(s, i + 1, Len(s)))

\* s.strip('{}'): drops every leading and trailing brace character
RECURSIVE StripBraces(_)
StripBraces(s) ==
    IF Len(s) > 0 /\ s[1] \in {"{", "}"} THEN StripBraces(Tail(s))
    ELSE IF Len(s) > 0 /\ s[Len(s)] \in {"{", "}"}
         THEN StripBraces(SubSeq(s, 1, Len(s) - 1))
         ELSE s

\* the text after an optional sign
Unsigned(s) == IF Len(s) > 0 /\ s[1] \in {"-", "+"} THEN Tail(s) ELSE s

Negative(s) == Len(s) > 0 /\ s[1] = "-"

RECURSIVE DigitsVal(_)
DigitsVal(s) ==
    IF s = <<>> THEN 0
    ELSE 10 * DigitsVal(SubSeq(s, 1, Len(s) - 1)) + DigitVal(s[Len(s)])

\* int(s) succeeds: an optional sign and one or more decimal digits
IsIntLiteral(s) ==
    LET u == Unsigned(s) IN Len(u) > 0 /\ \A i \in 1..Len(u) : u[i] \in DigitChars

IntOf(s) == IF Negative(s) THEN -DigitsVal(Unsigned(s)) ELSE DigitsVal(Unsigned(s))

\* float(s) succeeds: an optional sign, digits with at most one point, and
\* at least one digit ("5", "5.", ".5", "-4.5"; not "", ".", "-", "5,4")
IsFloatLiteral(s) ==
    LET u == Unsigned(s) IN
        /\ \A i \in 1..Len(u) : u[i] \in DigitChars \cup {"."}
        /\ Cardinality({i \in 1..Len(u) : u[i] = "."}) <= 1
        /\ \E i \in 1..Len(u) : u[i] \in DigitChars

FloatOf(s) ==
    LET u    == Unsigned(s)
        digs == SelectSeq(u, LAMBDA c : c \in DigitChars)
        dots == {i \in 1..Len(u) : u[i] = "."}
        frac == IF dots = {} THEN 0 ELSE Len(u) - (CHOOSE i \in dots : TRUE)
        mag  == DigitsVal(digs)
    IN  Rat(IF Negative(s) THEN -mag ELSE mag, Pow10(frac))

\* str(k) for an integer k
RECURSIVE NatStr(_)
NatStr(k) ==
    LET c == CHOOSE ch \in DigitChars : DigitVal(ch) = k % 10
    IN  IF k < 10 THEN <<c>> ELSE NatStr(k \div 10) \o <<c>>

IntStr(k) == IF k < 0 THEN <<"-">> \o NatStr(-k) ELSE NatStr(k)

(***************************************************************************)
(* Python values as they reach PointOfInterest.objects.create.             *)
(***************************************************************************)
PyNone == [t |-> "None"]

PyInt(k) == [t |-> "int", i |-> k]

PyFloat(r) == [t |-> "float", f |-> r]

PyStr(s) == [t |-> "str", s |-> s]

PyList(xs) == [t |-> "list", l |-> xs]

PyDict(f) == [t |-> "dict", m |-> f]

IsNumber(x) == x.t \in {"int", "float"}

\* the float a Python number stands for
NumRat(x) == IF x.t = "int" THEN RatOfInt(x.i) ELSE x.f

\* bool(x), as `if item['ratings']` evaluates it
Truthy(x) ==
    CASE x.t = "None" -> FALSE
      [] x.t = "int" -> x.i # 0
      [] x.t = "float" -> x.f.n # 0
      [] x.t = "str" -> Len(x.s) > 0
      [] x.t = "list" -> Len(x.l) > 0
      [] x.t = "dict" -> DOMAIN x.m # {}

\* sum(xs) over a sequence of rationals, starting from 0
RECURSIVE SumRat(_)
SumRat(xs) == IF xs = <<>> THEN RatOfInt(0) ELSE RatAdd(xs[1], SumRat(Tail(xs)))

\* sum(xs) / len(xs), len(xs) > 0
MeanDropsOne(xs) == RatDivInt(SumRat(Tail(xs)), Len(xs))

Mean(xs) == RatDivInt(SumRat(xs), Len(xs))

\* an outcome of evaluating Python code: an exception class, or a value
Raised(e) == [exc |-> e]

Returned(x) == [exc |-> "", val |-> x]

(***************************************************************************)
(* The PointOfInterest model: external_id is the AutoField primary key,    *)
(* the CharFields keep str(value), the FloatFields keep float(value), and  *)
(* every column is NOT NULL.                                               *)
(***************************************************************************)
\* what a CharField writes for a value that is not None
CharColumn(x) == IF x.t = "int" THEN IntStr(x.i) ELSE x.s

\* FloatField.get_prep_value: float(value), "" when it succeeds
FloatPrepExc(x) ==
    CASE x.t = "None" -> ""
      [] x.t \in {"int", "float"} -> ""
      [] x.t = "str" -> IF IsFloatLiteral(x.s) THEN "" ELSE "ValueError"
      [] OTHER -> "TypeError"

FloatColumn(x) == IF x.t = "str" THEN FloatOf(x.s) ELSE NumRat(x)

CharNames == <<"internal_id", "name", "category">>

FloatNames == <<"latitude", "longitude", "ratings">>

\* the exception PointOfInterest.objects.create(**args) ends with, "" if none:
\* the values are prepared before the statement is sent, and the NOT NULL
\* constraints are the database's
CreateExc(args, up) ==
    IF \E i \in 1..3 : FloatPrepExc(args[FloatNames[i]]) # ""
    THEN FloatPrepExc(args[FloatNames[
             CHOOSE i \in 1..3 : /\ FloatPrepExc(args[FloatNames[i]]) # ""
                                 /\ \A j \in 1..(i - 1) :
                                        FloatPrepExc(args[FloatNames[j]]) = ""]])
    ELSE IF ~up THEN "OperationalError"
    ELSE IF \E i \in 1..3 : args[CharNames[i]].t = "None" THEN "IntegrityError"
    ELSE IF \E i \in 1..3 : args[FloatNames[i]].t = "None" THEN "IntegrityError"
    ELSE ""

\* the row INSERTed for args under primary key id
NewRow(args, id) ==
    [external_id |-> id,
     internal_id |-> CharColumn(args.internal_id),
     name        |-> CharColumn(args.name),
     category    |-> CharColumn(args.category),
     latitude    |-> FloatColumn(args.latitude),
     longitude   |-> FloatColumn(args.longitude),
     ratings     |-> FloatColumn(args.ratings)]

CreateArgs(id, name, category, lat, lon, ratings) ==
    [internal_id |-> id, name |-> name, category |-> category,
     latitude |-> lat, longitude |-> lon, ratings |-> ratings]

(***************************************************************************)
(* One tabular row: int(poi_id), float(poi_latitude), float(poi_longitude),*)
(* the brace check and the mean of poi_ratings.  A row is a function from  *)
(* column names to strings; a column it lacks raises KeyError.             *)
(***************************************************************************)
\* [float(rating.strip('{}')) for rating in ratings_str.split(',')] succeeds
RatingElementsParse(s) ==
    \A i \in 1..Len(Split(s)) : IsFloatLiteral(StripBraces(Split(s)[i]))

CsvRatings(s) == [i \in 1..Len(Split(s)) |-> FloatOf(StripBraces(Split(s)[i]))]

\* the cell read by position, the last of the row, instead of by name
LastCell(row) ==
    IF "extra_column" \in DOMAIN row THEN row.extra_column ELSE row.poi_ratings

\* ratings_str = row['poi_ratings']
RatingsCell(row) == row.poi_ratings

BracesNotChecked(s) == TRUE

BracesOk(s) == StartsWith(s, "{") /\ EndsWith(s, "}")

CsvRowArgs(row) ==
    IF "poi_id" \notin DOMAIN row THEN Raised("KeyError")
    ELSE IF ~IsIntLiteral(row.poi_id) THEN Raised("ValueError")
    ELSE IF {"poi_name", "poi_category", "poi_latitude"} \ DOMAIN row # {}
    THEN Raised("KeyError")
    ELSE IF ~IsFloatLiteral(row.poi_latitude) THEN Raised("ValueError")
    ELSE IF "poi_longitude" \notin DOMAIN row THEN Raised("KeyError")
    ELSE IF ~IsFloatLiteral(row.poi_longitude) THEN Raised("ValueError")
    ELSE IF "poi_ratings" \notin DOMAIN row THEN Raised("KeyError")
    ELSE IF ~BracesOk(RatingsCell(row)) THEN Raised("ValueError")
    ELSE IF ~RatingElementsParse(RatingsCell(row)) THEN Raised("ValueError")
    ELSE Returned(CreateArgs(PyInt(IntOf(row.poi_id)),
                             PyStr(row.poi_name),
                             PyStr(row.poi_category),
                             PyFloat(FloatOf(row.poi_latitude)),
                             PyFloat(FloatOf(row.poi_longitude)),
                             PyFloat(Mean(CsvRatings(RatingsCell(row))))))

(***************************************************************************)
(* One document item: a function from keys to Python values.               *)
(***************************************************************************)
\* sum(x) / len(x) raises TypeError unless x is a list of numbers
RatingsSumExc(x) ==
    IF x.t = "list" /\ \A i \in 1..Len(x.l) : IsNumber(x.l[i]) THEN "" ELSE "TypeError"

\* the ratings expression without its `if item['ratings']` guard
JsonRatingsExcUnguarded(item) ==
    IF "ratings" \notin DOMAIN item THEN "KeyError"
    ELSE IF RatingsSumExc(item.ratings) # "" THEN "TypeError"
    ELSE IF Len(item.ratings.l) = 0 THEN "ZeroDivisionError"
    ELSE ""

\* sum(item['ratings']) / len(item['ratings']) if item['ratings'] else 0
JsonRatingsExc(item) ==
    IF "ratings" \notin DOMAIN item THEN "KeyError"
    ELSE IF Truthy(item.ratings) THEN RatingsSumExc(item.ratings)
    ELSE ""

JsonRatings(item) ==
    IF Truthy(item.ratings)
    THEN PyFloat(Mean([i \in 1..Len(item.ratings.l) |-> NumRat(item.ratings.l[i])]))
    ELSE PyInt(0)

\* item['id'], item['name'], item['coordinates']['latitude'],
\* item['coordinates']['longitude'], item['category'], in this order
JsonLookupExc(item) ==
    IF {"id", "name", "coordinates"} \ DOMAIN item # {} THEN "KeyError"
    ELSE IF item.coordinates.t # "dict" THEN "TypeError"
    ELSE IF {"latitude", "longitude"} \ DOMAIN item.coordinates.m # {} THEN "KeyError"
    ELSE IF "category" \notin DOMAIN item THEN "KeyError"
    ELSE ""

JsonCreateArgs(item) ==
    CreateArgs(item.id, item.name, item.category,
               item.coordinates.m.latitude, item.coordinates.m.longitude,
               JsonRatings(item))

\* process_json_file: the ratings expression is evaluated before the call
JsonItemArgs(item) ==
    IF JsonRatingsExc(item) # "" THEN Raised(JsonRatingsExc(item))
    ELSE IF JsonLookupExc(item) # "" THEN Raised(JsonLookupExc(item))
    ELSE Returned(JsonCreateArgs(item))

\* Command.process_json_chunk: the ratings expression is the last argument
CmdJsonItemArgs(item) ==
    IF JsonLookupExc(item) # "" THEN Raised(JsonLookupExc(item))
    ELSE IF JsonRatingsExc(item) # "" THEN Raised(JsonRatingsExc(item))
    ELSE Returned(JsonCreateArgs(item))

(***************************************************************************)
(* One tree element: a function from the tags of its children to their     *)
(* text (a string, or None for an empty child); find() of a tag it lacks   *)
(* is None, whose .text raises AttributeError.                             *)
(***************************************************************************)
\* float(poi_element.find(tag).text)
XmlFloatExc(el, tag) ==
    IF tag \notin DOMAIN el THEN "AttributeError"
    ELSE IF el[tag].t = "None" THEN "TypeError"
    ELSE IF ~IsFloatLiteral(el[tag].s) THEN "ValueError"
    ELSE ""

\* ratings_str = find('pratings').text;
\* ratings = [float(rating) for rating in ratings_str.split(',')]
XmlRatingsExc(el) ==
    IF "pratings" \notin DOMAIN el THEN "AttributeError"
    ELSE IF el.pratings.t = "None" THEN "AttributeError"
    ELSE IF \E i \in 1..Len(Split(el.pratings.s)) :
                ~IsFloatLiteral(Split(el.pratings.s)[i])
    THEN "ValueError"
    ELSE ""

XmlRatings(el) ==
    [i \in 1..Len(Split(el.pratings.s)) |-> FloatOf(Split(el.pratings.s)[i])]

\* sum(ratings) / len(ratings) if ratings else 0
XmlAverage(ratings) == IF Len(ratings) > 0 THEN PyFloat(Mean(ratings)) ELSE PyInt(0)

\* the same statements in process_xml_file and Command.process_xml_chunk
XmlElementArgs(el) ==
    IF XmlRatingsExc(el) # "" THEN Raised(XmlRatingsExc(el))
    ELSE IF {"pid", "pname"} \ DOMAIN el # {} THEN Raised("AttributeError")
    ELSE IF XmlFloatExc(el, "platitude") # "" THEN Raised(XmlFloatExc(el, "platitude"))
    ELSE IF XmlFloatExc(el, "plongitude") # "" THEN Raised(XmlFloatExc(el, "plongitude"))
    ELSE IF "pcategory" \notin DOMAIN el THEN Raised("AttributeError")
    ELSE Returned(CreateArgs(el.pid, el.pname, el.pcategory,
                             PyFloat(FloatOf(el.platitude.s)),
                             PyFloat(FloatOf(el.plongitude.s)),
                             XmlAverage(XmlRatings(el))))

(***************************************************************************)
(* Inputs.                                                                 *)
(***************************************************************************)
\* the sequences over S of length at most n
SeqsUpTo(S, n) == UNION {[1..k -> S] : k \in 0..n}

\* characters of the exhaustive poi_ratings strings
RatingChars == {"{", "}", ",", "5", "x"}

\* characters of the exhaustive pratings strings
TreeRatingChars == {",", "5", "4", "x"}

\* characters of the exhaustive poi_id / coordinate strings
NumChars == {"-", ".", "7", "x"}

CsvRow1 ==
    [poi_id |-> <<"1">>, poi_name |-> <<"A">>, poi_category |-> <<"c">>,
     poi_latitude |-> <<"1", "0", ".", "0">>, poi_longitude |-> <<"2", "0", ".", "0">>,
     poi_ratings |-> <<"{", "5", ",", "4", ",", "3", "}">>]

CsvRow2 ==
    [CsvRow1 EXCEPT !.poi_id = <<"2">>, !.poi_name = <<"B">>,
                    !.poi_latitude = <<"1", "5", ".", "0">>,
                    !.poi_ratings = <<"{", "2", ",", "3", ",", "5", "}">>]

CsvRowExtra ==
    [poi_id |-> <<"4">>, poi_name |-> <<"E">>, poi_category |-> <<"c">>,
     poi_latitude |-> <<"1", "0", ".", "0">>, poi_longitude |-> <<"2", "0", ".", "0">>,
     poi_ratings |-> <<"{", "1", ",", "2", ",", "3", "}">>,
     extra_column |-> <<"x">>]

CsvRowIncomplete ==
    [poi_id |-> <<"3">>, poi_name |-> <<"I">>, poi_category |-> <<"c">>,
     poi_latitude |-> <<"1", "0", ".", "0">>, poi_longitude |-> <<>>]

\* the rows of the batch inputs: two valid rows, a row with an extra column,
\* and rows with a non-numeric id, an empty longitude, ratings without
\* braces, empty braces, and no poi_ratings at all
CsvSampleRows ==
    {CsvRow1, CsvRow2, CsvRowExtra, CsvRowIncomplete,
     [CsvRow1 EXCEPT !.poi_id = <<"x">>],
     [CsvRow1 EXCEPT !.poi_longitude = <<>>],
     [CsvRow1 EXCEPT !.poi_ratings = <<"5", ",", "4">>],
     [CsvRow1 EXCEPT !.poi_ratings = <<"{", "}">>]}

\* single rows with every poi_ratings string, and every poi_id,
\* poi_latitude and poi_longitude string, over a small alphabet
CsvExhaustiveRows ==
    {[CsvRow1 EXCEPT !.poi_ratings = s] : s \in SeqsUpTo(RatingChars, MaxLen)}
    \cup {[CsvRow1 EXCEPT !.poi_id = s] : s \in SeqsUpTo(NumChars, MaxNumLen)}
    \cup {[CsvRow1 EXCEPT !.poi_latitude = s] : s \in SeqsUpTo(NumChars, MaxNumLen)}
    \cup {[CsvRowExtra EXCEPT !.poi_longitude = s] : s \in SeqsUpTo(NumChars, MaxNumLen)}

JsonCoordinates == PyDict([latitude |-> PyFloat(Rat(10, 1)), longitude |-> PyInt(20)])

JsonItem1 ==
    [id |-> PyInt(1), name |-> PyStr(<<"A">>), category |-> PyStr(<<"c">>),
     coordinates |-> JsonCoordinates,
     ratings |-> PyList(<<PyInt(5), PyInt(4), PyInt(3)>>)]

JsonItemNoRatingsKey ==
    [id |-> PyInt(3), name |-> PyStr(<<"I">>), category |-> PyStr(<<"c">>),
     coordinates |-> JsonCoordinates]

JsonItemNoName ==
    [id |-> PyInt(3), category |-> PyStr(<<"c">>),
     coordinates |-> JsonCoordinates, ratings |-> PyList(<<PyInt(5)>>)]

JsonItemEmptyRatings == [JsonItem1 EXCEPT !.id = PyStr(<<"2">>), !.ratings = PyList(<<>>)]

\* the items of the batch inputs: a valid item, an item with no ratings,
\* and items with a key missing, a null name, a non-numeric latitude
\* and a rating that is a string
JsonSampleItems ==
    {JsonItem1, JsonItemNoRatingsKey, JsonItemNoName,
     JsonItemEmptyRatings,
     [JsonItem1 EXCEPT !.name = PyNone],
     [JsonItem1 EXCEPT !.coordinates =
          PyDict([latitude |-> PyStr(<<"x">>), longitude |-> PyInt(20)])],
     [JsonItem1 EXCEPT !.ratings = PyList(<<PyInt(5), PyStr(<<"x">>)>>)]}

JsonRatingValues == {PyInt(5), PyInt(4), PyFloat(Rat(9, 2)), PyStr(<<"5">>)}

\* single items with every ratings array over a few values, and the
\* ratings null, 0 and a string
JsonExhaustiveItems ==
    {[JsonItem1 EXCEPT !.ratings = PyList(r)] : r \in SeqsUpTo(JsonRatingValues, MaxRecords + 1)}
    \cup {[JsonItem1 EXCEPT !.ratings = r] : r \in {PyNone, PyInt(0), PyStr(<<"5">>)}}

XmlElement1 ==
    [pid |-> PyStr(<<"1">>), pname |-> PyStr(<<"A">>), pcategory |-> PyStr(<<"c">>),
     platitude |-> PyStr(<<"1", "0", ".", "0">>),
     plongitude |-> PyStr(<<"2", "0", ".", "0">>),
     pratings |-> PyStr(<<"5", ",", "4", ",", "3">>)]

XmlElementNoRatings ==
    [pid |-> PyStr(<<"3">>), pname |-> PyStr(<<"I">>), pcategory |-> PyStr(<<"c">>),
     platitude |-> PyStr(<<"1", "0", ".", "0">>),
     plongitude |-> PyStr(<<"2", "0", ".", "0">>)]

\* the elements of the batch inputs: two valid elements, and elements with
\* no pratings child, an empty pratings child, an empty pname child,
\* a non-numeric rating and a non-numeric latitude
XmlSampleElements ==
    {XmlElement1, XmlElementNoRatings,
     [XmlElement1 EXCEPT !.pid = PyStr(<<"2">>), !.pratings = PyStr(<<"4">>)],
     [XmlElement1 EXCEPT !.pratings = PyNone],
     [XmlElement1 EXCEPT !.pname = PyNone],
     [XmlElement1 EXCEPT !.pratings = PyStr(<<"5", ",", "x">>)],
     [XmlElement1 EXCEPT !.platitude = PyStr(<<"x">>)]}

\* single elements with every pratings string over a small alphabet
XmlExhaustiveElements ==
    {[XmlElement1 EXCEPT !.pratings = PyStr(s)] : s \in SeqsUpTo(TreeRatingChars, MaxLen)}

\* a file: its path as a sequence of name parts, whether its reader can open
\* it and parse its outer structure, and the records the reader yields
File(path, readable, records) ==
    [path |-> path, readable |-> readable, records |-> records]

NoFile == File(<<>>, FALSE, <<>>)

CsvPath == <<"a", ".csv">>

JsonPath == <<"a", ".json">>

XmlPath == <<"a", ".xml">>

\* paths that end with none of '.csv', '.json', '.xml'
OtherPaths == {<<"a", ".txt">>, <<".csv", "a">>}

\* the files a task is submitted with, by task
TaskFiles(task) ==
    CASE task = "process_csv_chunk" ->
             {File(CsvPath, TRUE, r) : r \in SeqsUpTo(CsvSampleRows, MaxRecords)}
             \cup {File(CsvPath, TRUE, <<r>>) : r \in CsvExhaustiveRows}
             \cup {File(CsvPath, FALSE, <<>>)}
      [] task = "process_json_file" ->
             {File(JsonPath, TRUE, r) : r \in SeqsUpTo(JsonSampleItems, MaxRecords)}
             \cup {File(JsonPath, TRUE, <<r>>) : r \in JsonExhaustiveItems}
             \cup {File(JsonPath, FALSE, <<>>)}
      [] task = "process_xml_file" ->
             {File(XmlPath, TRUE, r) : r \in SeqsUpTo(XmlSampleElements, MaxRecords)}
             \cup {File(XmlPath, TRUE, <<r>>) : r \in XmlExhaustiveElements}
             \cup {File(XmlPath, FALSE, <<>>)}

Tasks == {"process_csv_chunk", "process_json_file", "process_xml_file"}

\* the record sequences of the files on the command line: per format, a
\* valid record (ok) and a failing one (bad) in each relative position
RecordSeqs(ok, bad) ==
    {<<>>, <<ok>>, <<bad>>, <<ok, bad>>, <<bad, ok>>, <<ok, bad, ok>>}

CommandFiles ==
    {File(CsvPath, TRUE, r) :
         r \in RecordSeqs(CsvRow1, [CsvRow1 EXCEPT !.poi_id = <<"x">>])}
    \cup {File(JsonPath, TRUE, r) : r \in RecordSeqs(JsonItem1, JsonItemNoRatingsKey)}
    \cup {File(JsonPath, TRUE, <<JsonItemEmptyRatings>>)}
    \cup {File(XmlPath, TRUE, r) :
              r \in RecordSeqs(XmlElement1,
                               [XmlElement1 EXCEPT !.pratings = PyStr(<<"5", ",", "x">>)])}
    \cup {File(p, FALSE, <<>>) : p \in {CsvPath, JsonPath, XmlPath}}
    \cup {File(p, TRUE, <<>>) : p \in OtherPaths}

(***************************************************************************)
(* State.                                                                  *)
(***************************************************************************)
VARIABLES
    entry,       \* "handle" for the management command, else the task's name
    argv,        \* the file paths given: options['files'], or the task's file_path
    chunk_size,  \* the chunk_size of the readers
    repoUp,      \* whether the database accepts statements
    files,       \* the file paths handle's loop has not reached yet
    cur,         \* the file being imported, NoFile outside an import
    chunks,      \* the chunks of cur not yet processed
    rows,        \* the records of the chunk in progress not yet processed
    pc,          \* where the command or the task stands
    store,       \* the PointOfInterest table, in insertion order
    nextId,      \* the next value of the external_id AutoField
    stdout,      \* what was printed or written to stdout, in order
    stderr,      \* what was written to stderr, in order
    runs,        \* how many times the task was started
    ends         \* Len(store) when each file of argv, or each run, ended

vars == <<entry, argv, chunk_size, repoUp, files, cur, chunks, rows, pc,
          store, nextId, stdout, stderr, runs, ends>>

\* chunk_size = 1000 in every reader
CHUNK_SIZE == 1000

\* a chunk size small enough for the files of the model to span chunks
SmallChunk == 1

Min(a, b) == IF a < b THEN a ELSE b

\* [data[i:i+chunk_size] for i in range(0, len(data), chunk_size)]
RECURSIVE Chunks(_, _)
Chunks(data, n) ==
    IF Len(data) = 0 THEN <<>>
    ELSE <<SubSeq(data, 1, Min(n, Len(data)))>>
         \o Chunks(SubSeq(data, n + 1, Len(data)), n)

\* file_path.endswith(suffix)
PathEndsWith(path, suffix) == Len(path) > 0 /\ path[Len(path)] = suffix

AnyFormat(path) == "csv"

\* the branch of handle's if / elif chain taken for path, "" if none
Format(path) ==
    IF PathEndsWith(path, ".csv") THEN "csv"
    ELSE IF PathEndsWith(path, ".json") THEN "json"
    ELSE IF PathEndsWith(path, ".xml") THEN "xml"
    ELSE ""

InitCommand ==
    /\ entry = "handle"
    /\ argv \in SeqsUpTo(CommandFiles, MaxFiles)
    /\ chunk_size \in {SmallChunk, CHUNK_SIZE}
    /\ files = argv
    /\ pc = "handle"
    /\ runs = 1

InitTask ==
    /\ entry \in Tasks
    /\ \E f \in TaskFiles(entry) : argv = <<f>>
    /\ chunk_size = CHUNK_SIZE
    /\ files = <<>>
    /\ pc = "queued"
    /\ runs = 0

Init ==
    /\ InitCommand \/ InitTask
    /\ repoUp = TRUE
    /\ cur = NoFile
    /\ chunks = <<>>
    /\ rows = <<>>
    /\ store = <<>>
    /\ nextId = 1
    /\ stdout = <<>>
    /\ stderr = <<>>
    /\ ends = <<>>

\* the reader raises on a file without data, as on one it cannot open
OpenRaisesOnEmpty(f) == ~f.readable \/ f.records = <<>>

\* pd.read_csv / open and json.load / ET.parse raise: the file cannot be
\* opened, or its outer structure cannot be parsed
OpenRaises(f) == ~f.readable

\* update_or_create keyed by internal_id instead of create
InsertOrUpdate(args) ==
    IF \E i \in 1..Len(store) : store[i].internal_id = CharColumn(args.internal_id)
    THEN /\ store' = [i \in 1..Len(store) |->
                         IF store[i].internal_id = CharColumn(args.internal_id)
                         THEN NewRow(args, store[i].external_id)
                         ELSE store[i]]
         /\ nextId' = nextId
    ELSE /\ store' = Append(store, NewRow(args, nextId))
         /\ nextId' = nextId + 1

\* PointOfInterest.objects.create(**args) when it raises nothing
Insert(args) ==
    /\ store' = Append(store, NewRow(args, nextId))
    /\ nextId' = nextId + 1

\* the exception one record ends with, "" when its row was inserted
RecordExc(res) == IF res.exc # "" THEN res.exc ELSE CreateExc(res.val, repoUp)

\* a record's statements: the row is inserted iff nothing raised
Persist(res) ==
    IF RecordExc(res) = "" THEN Insert(res.val) ELSE UNCHANGED <<store, nextId>>

(***************************************************************************)
(* The management command: Command.handle and its readers.                 *)
(***************************************************************************)
\* handle's loop reaches a path with a reader and calls import_<format>
HandleDispatch ==
    /\ entry = "handle" /\ pc = "handle" /\ files # <<>>
    /\ Format(Head(files).path) # ""
    /\ cur' = Head(files)
    /\ files' = Tail(files)
    /\ pc' = "import"
    /\ UNCHANGED <<entry, argv, chunk_size, repoUp, chunks, rows, store, nextId,
                   stdout, stderr, runs, ends>>

\* handle's loop reaches a path no branch matches
HandleSkip ==
    /\ entry = "handle" /\ pc = "handle" /\ files # <<>>
    /\ Format(Head(files).path) = ""
    /\ files' = Tail(files)
    /\ ends' = Append(ends, Len(store))
    /\ UNCHANGED <<entry, argv, chunk_size, repoUp, cur, chunks, rows, pc, store,
                   nextId, stdout, stderr, runs>>

\* handle's loop is over
HandleFinish ==
    /\ entry = "handle" /\ pc = "handle" /\ files = <<>>
    /\ stdout' = Append(stdout, "All files imported successfully")
    /\ pc' = "done"
    /\ UNCHANGED <<entry, argv, chunk_size, repoUp, files, cur, chunks, rows, store,
                   nextId, stderr, runs, ends>>

ImportErrorPropagates == "raised"

\* where control goes when import_<format> catches an exception: back to handle
ImportErrorPc == "handle"

\* import_csv / import_json / import_xml open the file and split it in chunks
ImportOpen ==
    /\ entry = "handle" /\ pc = "import"
    /\ IF OpenRaises(cur)
       THEN /\ stderr' = Append(stderr, "Error importing file")
            /\ pc' = ImportErrorPc
            /\ cur' = NoFile
            /\ ends' = Append(ends, Len(store))
            /\ UNCHANGED chunks
       ELSE /\ chunks' = Chunks(cur.records, chunk_size)
            /\ pc' = "chunks"
            /\ UNCHANGED <<cur, stderr, ends>>
    /\ UNCHANGED <<entry, argv, chunk_size, repoUp, files, rows, store, nextId,
                   stdout, runs>>

\* the loop over the chunks: the next chunk, or the reader returns
ImportNextChunk ==
    /\ entry = "handle" /\ pc = "chunks"
    /\ IF chunks # <<>>
       THEN /\ rows' = Head(chunks)
            /\ chunks' = Tail(chunks)
            /\ pc' = "rows"
            /\ UNCHANGED <<cur, ends>>
       ELSE /\ pc' = "handle"
            /\ cur' = NoFile
            /\ ends' = Append(ends, Len(store))
            /\ UNCHANGED <<chunks, rows>>
    /\ UNCHANGED <<entry, argv, chunk_size, repoUp, files, store, nextId, stdout,
                   stderr, runs>>

\* process_<format>_chunk has no record left
ChunkEnd ==
    /\ entry = "handle" /\ pc = "rows" /\ rows = <<>>
    /\ pc' = "chunks"
    /\ UNCHANGED <<entry, argv, chunk_size, repoUp, files, cur, chunks, rows, store,
                   nextId, stdout, stderr, runs, ends>>

\* Command.process_csv_chunk, one row: the inner try skips a failing row
CmdCsvRow ==
    /\ entry = "handle" /\ pc = "rows" /\ rows # <<>>
    /\ Format(cur.path) = "csv"
    /\ LET res == CsvRowArgs(Head(rows)) IN
           /\ Persist(res)
           /\ stderr' = IF RecordExc(res) = "" THEN stderr
                        ELSE Append(stderr, "Skipping row due to validation error")
    /\ rows' = Tail(rows)
    /\ UNCHANGED <<entry, argv, chunk_size, repoUp, files, cur, chunks, pc, stdout,
                   runs, ends>>

\* the try inside the loop, as in process_csv_chunk: the rest is processed
RestKeptAfterError(rest) == rest

\* the records of the chunk left to process_json_chunk / process_xml_chunk
\* after one of them raised: the try encloses the loop, so none
RestAfterError(rest) == <<>>

\* Command.process_json_chunk, one item
CmdJsonItem ==
    /\ entry = "handle" /\ pc = "rows" /\ rows # <<>>
    /\ Format(cur.path) = "json"
    /\ LET res == CmdJsonItemArgs(Head(rows)) IN
           /\ Persist(res)
           /\ IF RecordExc(res) = ""
              THEN rows' = Tail(rows) /\ UNCHANGED stderr
              ELSE /\ rows' = RestAfterError(Tail(rows))
                   /\ stderr' = Append(stderr, "Error processing JSON chunk")
    /\ UNCHANGED <<entry, argv, chunk_size, repoUp, files, cur, chunks, pc, stdout,
                   runs, ends>>

\* Command.process_xml_chunk, one element
CmdXmlElement ==
    /\ entry = "handle" /\ pc = "rows" /\ rows # <<>>
    /\ Format(cur.path) = "xml"
    /\ LET res == XmlElementArgs(Head(rows)) IN
           /\ Persist(res)
           /\ IF RecordExc(res) = ""
              THEN rows' = Tail(rows) /\ UNCHANGED stderr
              ELSE /\ rows' = RestAfterError(Tail(rows))
                   /\ stderr' = Append(stderr, "Error processing XML chunk")
    /\ UNCHANGED <<entry, argv, chunk_size, repoUp, files, cur, chunks, pc, stdout,
                   runs, ends>>

(***************************************************************************)
(* The celery tasks of poi/tasks.py.                                       *)
(***************************************************************************)
\* a worker starts the task: the file is opened and its outer structure
\* parsed, outside any try
TaskStart ==
    /\ entry \in Tasks /\ pc = "queued"
    /\ runs' = runs + 1
    /\ IF OpenRaises(argv[1])
       THEN /\ pc' = "raised"
            /\ stderr' = Append(stderr, "OSError")
            /\ ends' = Append(ends, Len(store))
            /\ UNCHANGED <<cur, chunks, rows>>
       ELSE /\ cur' = argv[1]
            /\ IF entry = "process_csv_chunk"
               THEN /\ chunks' = Chunks(argv[1].records, chunk_size)
                    /\ pc' = "chunks"
                    /\ UNCHANGED rows
               ELSE /\ rows' = argv[1].records
                    /\ pc' = "rows"
                    /\ UNCHANGED chunks
            /\ UNCHANGED <<stderr, ends>>
    /\ UNCHANGED <<entry, argv, chunk_size, repoUp, files, store, nextId, stdout>>

\* process_csv_chunk, the loop over the chunks: the next one, or the task returns
TaskNextChunk ==
    /\ entry = "process_csv_chunk" /\ pc = "chunks"
    /\ IF chunks # <<>>
       THEN /\ rows' = Head(chunks)
            /\ chunks' = Tail(chunks)
            /\ pc' = "rows"
            /\ UNCHANGED <<cur, ends>>
       ELSE /\ pc' = "returned"
            /\ cur' = NoFile
            /\ ends' = Append(ends, Len(store))
            /\ UNCHANGED <<chunks, rows>>
    /\ UNCHANGED <<entry, argv, chunk_size, repoUp, files, store, nextId, stdout,
                   stderr, runs>>

\* process_csv_chunk, the loop over the rows of a chunk is over
TaskChunkEnd ==
    /\ entry = "process_csv_chunk" /\ pc = "rows" /\ rows = <<>>
    /\ pc' = "chunks"
    /\ UNCHANGED <<entry, argv, chunk_size, repoUp, files, cur, chunks, rows, store,
                   nextId, stdout, stderr, runs, ends>>

\* what process_csv_chunk prints when a row raised
SkipMessage(exc) ==
    IF exc = "ValueError" THEN "Skipping row due to ValueError"
    ELSE "Skipping row due to unexpected error"

\* process_csv_chunk, one row: each except clause prints and continues
TaskCsvRow ==
    /\ entry = "process_csv_chunk" /\ pc = "rows" /\ rows # <<>>
    /\ LET res == CsvRowArgs(Head(rows)) IN
           /\ Persist(res)
           /\ stdout' = IF RecordExc(res) = "" THEN stdout
                        ELSE Append(stdout, SkipMessage(RecordExc(res)))
    /\ rows' = Tail(rows)
    /\ UNCHANGED <<entry, argv, chunk_size, repoUp, files, cur, chunks, pc, stderr,
                   runs, ends>>

\* a record of process_json_file / process_xml_file: nothing catches what it
\* raises, so the task ends with the exception
TaskRecord(res) ==
    /\ Persist(res)
    /\ IF RecordExc(res) = ""
       THEN /\ rows' = Tail(rows)
            /\ UNCHANGED <<cur, pc, stderr, ends>>
       ELSE /\ pc' = "raised"
            /\ cur' = NoFile
            /\ stderr' = Append(stderr, RecordExc(res))
            /\ ends' = Append(ends, Len(store))
            /\ UNCHANGED rows
    /\ UNCHANGED <<entry, argv, chunk_size, repoUp, files, chunks, stdout, runs>>

\* process_json_file, one item
TaskJsonItem ==
    /\ entry = "process_json_file" /\ pc = "rows" /\ rows # <<>>
    /\ TaskRecord(JsonItemArgs(Head(rows)))

\* process_xml_file, one element
TaskXmlElement ==
    /\ entry = "process_xml_file" /\ pc = "rows" /\ rows # <<>>
    /\ TaskRecord(XmlElementArgs(Head(rows)))

\* process_json_file / process_xml_file, the loop is over: the task returns
TaskLoopEnd ==
    /\ entry \in {"process_json_file", "process_xml_file"}
    /\ pc = "rows" /\ rows = <<>>
    /\ pc' = "returned"
    /\ cur' = NoFile
    /\ ends' = Append(ends, Len(store))
    /\ UNCHANGED <<entry, argv, chunk_size, repoUp, files, chunks, rows, store,
                   nextId, stdout, stderr, runs>>

\* the same file is submitted again after the task ended
Resubmit ==
    /\ entry \in Tasks /\ pc \in {"returned", "raised"}
    /\ runs < MaxRuns
    /\ pc' = "queued"
    /\ rows' = <<>>
    /\ UNCHANGED <<entry, argv, chunk_size, repoUp, files, cur, chunks, store,
                   nextId, stdout, stderr, runs, ends>>

Next ==
    \/ HandleDispatch
    \/ HandleSkip
    \/ HandleFinish
    \/ ImportOpen
    \/ ImportNextChunk
    \/ ChunkEnd
    \/ CmdCsvRow
    \/ CmdJsonItem
    \/ CmdXmlElement
    \/ TaskStart
    \/ TaskNextChunk
    \/ TaskChunkEnd
    \/ TaskCsvRow
    \/ TaskJsonItem
    \/ TaskXmlElement
    \/ TaskLoopEnd
    \/ Resubmit

Spec == Init /\ [][Next]_vars

\* the database stops accepting statements, at any point of an import
RepositoryDown ==
    /\ repoUp
    /\ pc \notin {"done", "returned", "raised"}
    /\ repoUp' = FALSE
    /\ UNCHANGED <<entry, argv, chunk_size, files, cur, chunks, rows, pc, store,
                   nextId, stdout, stderr, runs, ends>>

NextRepo == Next \/ RepositoryDown

\* the command and the tasks with a database that may become unavailable
SpecRepo == Init /\ [][NextRepo]_vars

\* chunk sizes under which the files of ChunkedFiles span several chunks of
\* several records
ChunkSizes == {SmallChunk + 1, SmallChunk + 2}

\* document and tree files of up to MaxRecords + 2 records, each two valid
\* records or a failing one
ChunkedFiles ==
    {File(JsonPath, TRUE, r) :
         r \in SeqsUpTo({JsonItem1, [JsonItem1 EXCEPT !.id = PyInt(2)],
                         JsonItemNoRatingsKey}, MaxRecords + 2)}
    \cup {File(XmlPath, TRUE, r) :
              r \in SeqsUpTo({XmlElement1, [XmlElement1 EXCEPT !.pid = PyStr(<<"2">>)],
                              [XmlElement1 EXCEPT !.pratings = PyStr(<<"5", ",", "x">>)]},
                             MaxRecords + 2)}

\* the command given one document or tree file
InitChunks ==
    /\ entry = "handle"
    /\ \E f \in ChunkedFiles : argv = <<f>>
    /\ chunk_size \in ChunkSizes
    /\ files = argv
    /\ pc = "handle"
    /\ runs = 1
    /\ repoUp = TRUE
    /\ cur = NoFile
    /\ chunks = <<>>
    /\ rows = <<>>
    /\ store = <<>>
    /\ nextId = 1
    /\ stdout = <<>>
    /\ stderr = <<>>
    /\ ends = <<>>

NextChunks ==
    \/ HandleDispatch
    \/ HandleFinish
    \/ ImportOpen
    \/ ImportNextChunk
    \/ ChunkEnd
    \/ CmdJsonItem
    \/ CmdXmlElement

\* import_json / import_xml over files of several chunks
SpecChunks == InitChunks /\ [][NextChunks]_vars

(***************************************************************************)
(* Properties.                                                             *)
(***************************************************************************)
\* a table row without its primary key
Content(r) ==
    [internal_id |-> r.internal_id, name |-> r.name, category |-> r.category,
     latitude |-> r.latitude, longitude |-> r.longitude, ratings |-> r.ratings]

\* the format of the records being processed
RecordFormat ==
    CASE entry = "process_csv_chunk" -> "csv"
      [] entry = "process_json_file" -> "json"
      [] entry = "process_xml_file" -> "xml"
      [] OTHER -> IF PathEndsWith(cur.path, ".csv") THEN "csv"
                  ELSE IF PathEndsWith(cur.path, ".json") THEN "json"
                  ELSE "xml"

\* a step that processes one record
RecordStep == pc = "rows" /\ rows # <<>> /\ rows' = Tail(rows)

\* a step that inserts a table row
InsertStep == Len(store') = Len(store) + 1

CsvColumns ==
    {"poi_id", "poi_name", "poi_category", "poi_latitude", "poi_longitude",
     "poi_ratings"}

\* the validations of a tabular row: every column there, poi_id an integer,
\* the coordinates floats, poi_ratings in braces with every comma-separated
\* element, its braces dropped, a float
RowPasses(row) ==
    /\ CsvColumns \subseteq DOMAIN row
    /\ IsIntLiteral(row.poi_id)
    /\ IsFloatLiteral(row.poi_latitude)
    /\ IsFloatLiteral(row.poi_longitude)
    /\ Len(row.poi_ratings) >= 2
    /\ Head(row.poi_ratings) = "{"
    /\ row.poi_ratings[Len(row.poi_ratings)] = "}"
    /\ \A e \in {Split(row.poi_ratings)[i] : i \in 1..Len(Split(row.poi_ratings))} :
           IsFloatLiteral(StripBraces(e))

\* the id and the name of each row of rs that passes, in order
PassingRows(rs) ==
    LET ok == SelectSeq(rs, RowPasses)
    IN  [i \in 1..Len(ok) |-> <<IntStr(IntOf(ok[i].poi_id)), ok[i].poi_name>>]

\* C1: process_csv_chunk on a file it can read never ends with an exception,
\* and when it returns the table holds one row per input row that passes the
\* validations, in input order, and no row for any other input row.
C1_ExactlyPassingRowsPersisted ==
    (entry = "process_csv_chunk" /\ argv[1].readable) =>
        /\ pc # "raised"
        /\ (pc = "returned" /\ runs = 1) =>
               [i \in 1..Len(store) |-> <<store[i].internal_id, store[i].name>>]
                   = PassingRows(argv[1].records)

\* C1 witness: a batch whose first row fails and whose second passes has
\* been processed, and exactly the second is in the table
C1_Witness ==
    /\ entry = "process_csv_chunk" /\ pc = "returned" /\ runs = 1
    /\ Len(argv[1].records) = 2
    /\ ~RowPasses(argv[1].records[1])
    /\ RowPasses(argv[1].records[2])
    /\ Len(store) = 1
    /\ store[1].name = argv[1].records[2].poi_name

\* the rating samples listed by the record at the head of rows, as floats:
\* '{n1,n2,...}' of a row, the array of an item, 'n1,n2,...' of an element
Samples(rec) ==
    CASE RecordFormat = "csv" -> CsvRatings(rec.poi_ratings)
      [] RecordFormat = "json" ->
             IF rec.ratings.t = "list"
             THEN [i \in 1..Len(rec.ratings.l) |-> NumRat(rec.ratings.l[i])]
             ELSE <<>>
      [] OTHER -> XmlRatings(rec)

\* r * k = s for rationals r, s and an integer k
TimesIs(r, k, s) == r.n * k * s.d = s.n * r.d

\* C2: whenever a record with a non-empty list of rating samples is
\* persisted, by a task or by the command, the rating of the new row times
\* the number of samples is the sum of the samples.
C2_RatingIsMean ==
    [][(RecordStep /\ InsertStep /\ Len(Samples(Head(rows))) > 0) =>
           TimesIs(store'[Len(store')].ratings,
                   Len(Samples(Head(rows))),
                   SumRat(Samples(Head(rows))))]_vars

\* C2 witness: the tree element with pratings '5,4,3' is in the table with
\* rating 4
C2_Witness ==
    /\ entry = "process_xml_file" /\ pc = "returned"
    /\ argv[1].records = <<XmlElement1>>
    /\ Len(store) = 1
    /\ store[1].ratings = [n |-> 4, d |-> 1]

\* the rows the table gained while file i of argv was handled
Segment(i) ==
    SubSeq(store, (IF i = 1 THEN 0 ELSE ends[i - 1]) + 1, ends[i])

\* a document item or a tree element that is persisted when processed alone
RecordValid(path, rec) ==
    IF PathEndsWith(path, ".json")
    THEN /\ CmdJsonItemArgs(rec).exc = ""
         /\ CreateExc(CmdJsonItemArgs(rec).val, TRUE) = ""
    ELSE /\ XmlElementArgs(rec).exc = ""
         /\ CreateExc(XmlElementArgs(rec).val, TRUE) = ""

\* C3: when the command has handled its files, every document file and
\* every tree file it could read has one row in the table for each of its
\* valid records, whatever failing records the same batch holds before them.
C3_RejectionKeepsRestOfBatch ==
    (entry = "handle" /\ pc = "done") =>
        \A i \in 1..Len(argv) :
            (/\ argv[i].readable
             /\ PathEndsWith(argv[i].path, ".json") \/ PathEndsWith(argv[i].path, ".xml"))
            => Len(Segment(i)) =
                   Cardinality({k \in 1..Len(argv[i].records) :
                                    RecordValid(argv[i].path, argv[i].records[k])})

\* C4: no task ends with an exception when it could open its file and parse
\* its outer structure, whatever the records of the file are.
C4_NoRecordRaisesPastTask ==
    (entry \in Tasks /\ argv[1].readable) => pc # "raised"

\* a document item that lacks nothing but rating samples: every key there,
\* the strings not null, the coordinates numbers, the ratings array empty
EmptyRatingsItem(item) ==
    /\ {"id", "name", "category", "coordinates", "ratings"} \subseteq DOMAIN item
    /\ item.id.t \in {"int", "str"}
    /\ item.name.t = "str"
    /\ item.category.t = "str"
    /\ item.coordinates.t = "dict"
    /\ {"latitude", "longitude"} \subseteq DOMAIN item.coordinates.m
    /\ IsNumber(item.coordinates.m.latitude)
    /\ IsNumber(item.coordinates.m.longitude)
    /\ item.ratings = PyList(<<>>)

\* C5: whenever a task or the command processes a document item whose
\* ratings array is empty, the step inserts a row with rating 0 and the
\* item's name, and raises nothing.
C5_EmptyRatingsGiveZero ==
    [][(/\ RecordFormat = "json"
        /\ pc = "rows" /\ rows # <<>>
        /\ EmptyRatingsItem(Head(rows)))
       => /\ InsertStep
          /\ store'[Len(store')].ratings = RatOfInt(0)
          /\ store'[Len(store')].name = Head(rows).name.s
          /\ rows' = Tail(rows)
          /\ pc' = "rows"
          /\ stderr' = stderr]_vars

\* C5 witness: the command has imported a document file whose only item has
\* an empty ratings array, and its row with rating 0 is in the table
C5_Witness ==
    /\ entry = "handle" /\ pc = "done"
    /\ Len(argv) = 1
    /\ argv[1].records = <<JsonItemEmptyRatings>>
    /\ Len(store) = 1
    /\ store[1].ratings = RatOfInt(0)

\* C6: a task given a file it can read that holds zero records leaves the
\* table empty, prints and logs nothing and never ends with an exception,
\* in its first run and in every later one.
C6_EmptyInputPersistsNothing ==
    (entry \in Tasks /\ argv[1].readable /\ argv[1].records = <<>>) =>
        /\ store = <<>>
        /\ nextId = 1
        /\ stdout = <<>>
        /\ stderr = <<>>
        /\ pc # "raised"
        /\ (runs >= 1 /\ pc = "queued") => Len(ends) = runs

\* C6 witness: process_csv_chunk has returned from a file with zero rows
C6_Witness ==
    /\ entry = "process_csv_chunk" /\ pc = "returned"
    /\ argv[1].readable /\ argv[1].records = <<>>
    /\ store = <<>>

\* the record rec is persisted when the task processes it alone
TaskAccepts(rec) ==
    LET res == CASE entry = "process_csv_chunk" -> CsvRowArgs(rec)
                 [] entry = "process_json_file" -> JsonItemArgs(rec)
                 [] OTHER -> XmlElementArgs(rec)
    IN  res.exc = "" /\ CreateExc(res.val, TRUE) = ""

\* C7: when a task has run twice on the same file, the table holds the rows
\* of the first run followed by as many rows with the same field values and
\* other external_id values; a task that returned persisted one row per
\* accepted record in each run; all external_id values differ; and no step
\* ever changes or removes a row that is in the table.
C7_ResubmissionDuplicates ==
    /\ []((entry \in Tasks /\ runs = 2 /\ pc \in {"returned", "raised"}) =>
            /\ Len(store) = 2 * ends[1]
            /\ \A i \in 1..ends[1] :
                   /\ Content(store[ends[1] + i]) = Content(store[i])
                   /\ store[ends[1] + i].external_id # store[i].external_id
            /\ \A i, j \in 1..Len(store) :
                   i # j => store[i].external_id # store[j].external_id
            /\ pc = "returned" =>
                   ends[1] = Cardinality({k \in 1..Len(argv[1].records) :
                                              TaskAccepts(argv[1].records[k])}))
    /\ [][Len(store') >= Len(store) /\ SubSeq(store', 1, Len(store)) = store]_vars

\* C7 witness: process_csv_chunk has run twice on a file of two valid rows
\* and the table holds four rows
C7_Witness ==
    /\ entry = "process_csv_chunk" /\ runs = 2 /\ pc = "returned"
    /\ argv[1].records = <<CsvRow1, CsvRow2>>
    /\ Len(store) = 4
    /\ store[3].internal_id = store[1].internal_id

\* a path that ends with none of '.csv', '.json', '.xml'
Unrecognized(path) ==
    ~\E suffix \in {".csv", ".json", ".xml"} : PathEndsWith(path, suffix)

\* C8: when handle's loop reaches a path that ends with none of '.csv',
\* '.json', '.xml', the step only moves on to the next path: no reader is
\* entered, the table, stdout and stderr stay as they are, and the loop goes
\* on with the rest of the list.
C8_UnrecognizedPathSkipped ==
    [][(/\ entry = "handle" /\ pc = "handle" /\ files # <<>>
        /\ Unrecognized(Head(files).path))
       => /\ files' = Tail(files)
          /\ pc' = "handle"
          /\ UNCHANGED <<cur, chunks, rows, store, nextId, stdout, stderr,
                         chunk_size, repoUp>>]_vars

\* C8 witness: handle has finished a list whose first path is unrecognized
\* and whose second is a tabular file, whose row is in the table
C8_Witness ==
    /\ entry = "handle" /\ pc = "done"
    /\ Len(argv) = 2
    /\ Unrecognized(argv[1].path)
    /\ PathEndsWith(argv[2].path, ".csv")
    /\ Len(store) = 1
    /\ stderr = <<>>

\* the field values a chunk persists when it is processed on its own: a
\* failing row is skipped, a failing item or element ends the chunk
RECURSIVE ChunkContent(_, _)
ChunkContent(path, chunk) ==
    IF chunk = <<>> THEN <<>>
    ELSE LET res == IF PathEndsWith(path, ".csv") THEN CsvRowArgs(Head(chunk))
                    ELSE IF PathEndsWith(path, ".json") THEN CmdJsonItemArgs(Head(chunk))
                    ELSE XmlElementArgs(Head(chunk))
         IN  IF res.exc = "" /\ CreateExc(res.val, TRUE) = ""
             THEN <<Content(NewRow(res.val, 0))>> \o ChunkContent(path, Tail(chunk))
             ELSE IF PathEndsWith(path, ".csv") THEN ChunkContent(path, Tail(chunk))
             ELSE <<>>

RECURSIVE ChunksContent(_, _)
ChunksContent(path, cs) ==
    IF cs = <<>> THEN <<>>
    ELSE ChunkContent(path, Head(cs)) \o ChunksContent(path, Tail(cs))

\* the field values the command persists from file f when f is the only
\* file listed
FileContent(f, size) ==
    IF Unrecognized(f.path) \/ ~f.readable THEN <<>>
    ELSE ChunksContent(f.path, Chunks(f.records, size))

\* file f fails: it cannot be read, or one of its records raises
FileFails(f) ==
    /\ ~Unrecognized(f.path)
    /\ \/ ~f.readable
       \/ Len(FileContent(f, CHUNK_SIZE)) < Len(f.records)

\* C9: the command never ends with an exception, and when it is done it has
\* handled every file listed and the rows it persisted while handling each
\* file have the field values that file yields when listed alone, whichever
\* other files of the list failed.
C9_FilesIndependent ==
    entry = "handle" =>
        /\ pc # "raised"
        /\ pc = "done" =>
               /\ Len(ends) = Len(argv)
               /\ \A i \in 1..Len(argv) :
                      [k \in 1..Len(Segment(i)) |-> Content(Segment(i)[k])]
                          = FileContent(argv[i], chunk_size)

\* C9 witness: the command is done with a list of two files: the first could
\* be read and failed after persisting one row, the second did not fail and
\* its one row is in the table
C9_Witness ==
    /\ entry = "handle" /\ pc = "done"
    /\ Len(argv) = 2
    /\ FileFails(argv[1]) /\ argv[1].readable
    /\ Len(Segment(1)) = 1
    /\ ~FileFails(argv[2])
    /\ Len(Segment(2)) = 1

\* the row without the columns the reader does not know
KnownColumns(row) == [c \in DOMAIN row \cap CsvColumns |-> row[c]]

\* C10: whenever a task or the command processes a tabular row, the row is
\* persisted iff the row without its unknown columns passes the validations,
\* and the field values persisted are those of the row without them.
C10_ExtraColumnsIgnored ==
    [][(RecordStep /\ RecordFormat = "csv")
       => IF RowPasses(KnownColumns(Head(rows)))
          THEN /\ InsertStep
               /\ Content(store'[Len(store')])
                      = Content(NewRow(CsvRowArgs(KnownColumns(Head(rows))).val, 0))
          ELSE store' = store]_vars

\* C10 witness: the row with an extra column is in the table
C10_Witness ==
    /\ entry = "process_csv_chunk" /\ pc = "returned"
    /\ argv[1].records = <<CsvRowExtra>>
    /\ Len(store) = 1
    /\ store[1].name = CsvRowExtra.poi_name

\* the batch sizes the readers are run with
BatchSizes == {SmallChunk, CHUNK_SIZE}

\* C11: when the command is done, the rows it persisted while handling each
\* file it could read have the field values the file yields under every
\* batch size, in the same order: the batch size the reader ran with does
\* not show in the table, also when records of the file fail.
C11_BatchSizeIrrelevant ==
    (entry = "handle" /\ pc = "done") =>
        \A i \in 1..Len(argv) : \A size \in BatchSizes :
            [k \in 1..Len(Segment(i)) |-> Content(Segment(i)[k])]
                = FileContent(argv[i], size)

\* a tree element that lacks nothing but rating samples: every child there,
\* the coordinates floats, the text of pratings absent or empty
EmptyRatingsElement(el) ==
    /\ {"pid", "pname", "pcategory", "platitude", "plongitude", "pratings"}
           \subseteq DOMAIN el
    /\ el.pid.t = "str" /\ el.pname.t = "str" /\ el.pcategory.t = "str"
    /\ el.platitude.t = "str" /\ IsFloatLiteral(el.platitude.s)
    /\ el.plongitude.t = "str" /\ IsFloatLiteral(el.plongitude.s)
    /\ el.pratings \in {PyNone, PyStr(<<>>)}

\* C12: whenever a task or the command processes a tree element whose
\* pratings child has no text or an empty text, the step inserts a row with
\* rating 0 and the element's name, and raises nothing.
C12_EmptyTreeRatingsGiveZero ==
    [][(/\ RecordFormat = "xml"
        /\ pc = "rows" /\ rows # <<>>
        /\ EmptyRatingsElement(Head(rows)))
       => /\ InsertStep
          /\ store'[Len(store')].ratings = RatOfInt(0)
          /\ store'[Len(store')].name = Head(rows).pname.s
          /\ rows' = Tail(rows)
          /\ pc' = "rows"
          /\ stderr' = stderr]_vars

\* the record at the head of rows is a tabular row that passes validation
HeadRowValid ==
    /\ pc = "rows" /\ rows # <<>>
    /\ RecordFormat = "csv"
    /\ CsvRowArgs(Head(rows)).exc = ""
    /\ CreateExc(CsvRowArgs(Head(rows)).val, TRUE) = ""

\* C13: when the database is unavailable and process_csv_chunk, of the tasks
\* or of the command, processes a row that passes validation, the batch is
\* over with the step: it does not go on to its next row as after a skipped
\* row.
C13_PersistenceFailureSurfaces ==
    [][(HeadRowValid /\ ~repoUp) => pc' # "rows"]_vars

\* the position in the file of the first record of the chunk that holds the
\* record at position p
ChunkStart(p, size) == ((p - 1) \div size) * size + 1

\* the positions of file f whose records the claim says are persisted: those
\* with no failing record from the start of their chunk up to themselves
PrefixPositions(f, size) ==
    {p \in 1..Len(f.records) :
         \A q \in ChunkStart(p, size)..p : RecordValid(f.path, f.records[q])}

\* the field values of the row a valid item or element is persisted as
RowOf(path, rec) ==
    Content(NewRow((IF PathEndsWith(path, ".json") THEN CmdJsonItemArgs(rec)
                    ELSE XmlElementArgs(rec)).val, 0))

\* the records of f at the positions of P, in file order, as rows
RowsAt(f, P) ==
    [k \in 1..Cardinality(P) |->
        RowOf(f.path,
              f.records[CHOOSE p \in P : Cardinality({q \in P : q <= p}) = k])]

\* a step of process_json_chunk / process_xml_chunk on a record that fails
FailingRecordStep ==
    /\ entry = "handle" /\ pc = "rows" /\ rows # <<>>
    /\ ~PathEndsWith(cur.path, ".csv")
    /\ ~RecordValid(cur.path, Head(rows))

\* C14: in the command, when a document or tree file has been handled the
\* table holds, in file order, exactly the records that no failing record
\* precedes in their chunk; a failing record leaves the rows persisted
\* before it in place, ends its chunk without persisting a later record of
\* it, and leaves the chunks after it to be processed.
C14_ChunkPrefixPersisted ==
    /\ []((entry = "handle" /\ pc = "done") =>
            \A i \in 1..Len(argv) :
                (/\ argv[i].readable
                 /\ PathEndsWith(argv[i].path, ".json")
                        \/ PathEndsWith(argv[i].path, ".xml"))
                => [k \in 1..Len(Segment(i)) |-> Content(Segment(i)[k])]
                       = RowsAt(argv[i], PrefixPositions(argv[i], chunk_size)))
    /\ [][FailingRecordStep =>
              /\ store' = store
              /\ rows' = <<>>
              /\ chunks' = chunks
              /\ pc' = "rows"]_vars
    /\ [][(entry = "handle" /\ pc = "chunks" /\ chunks # <<>>) =>
              (rows' = Head(chunks) /\ pc' = "rows")]_vars

\* C14 witness: a file of four records was handled in chunks of three; the
\* second record failed, and the table holds the first and the fourth
C14_Witness ==
    /\ entry = "handle" /\ pc = "done"
    /\ chunk_size = SmallChunk + 2
    /\ Len(argv[1].records) = MaxRecords + 2
    /\ ~RecordValid(argv[1].path, argv[1].records[2])
    /\ \A p \in {1, 3, MaxRecords + 2} : RecordValid(argv[1].path, argv[1].records[p])
    /\ Len(store) = 2
    /\ Content(store[1]) = RowOf(argv[1].path, argv[1].records[1])
    /\ Content(store[2]) = RowOf(argv[1].path, argv[1].records[MaxRecords + 2])

====
